---- MODULE Spec2Model ----
(***************************************************************************)
(* PumpRoom-Publish: the publish pipeline of src/src/main.ts.              *)
(*                                                                         *)
(* run() sequences folder validation, configuration validation, archive   *)
(* building, upload and cleanup, and reports one outcome through           *)
(* core.info / core.setFailed.  The file holds two definitions of run():   *)
(* lines 181-228 (with the two validation stages) and lines 369-410        *)
(* (archive, upload, cleanup only).                                        *)
(*                                                                         *)
(* Messages are the strings the code builds.  The pictographs that start   *)
(* some of them are written as ASCII tags: "[x] " for the cross mark,      *)
(* "[ok] " for the check mark, "[search] " for the magnifier, "[i] " for   *)
(* the information sign, and "  * " for the bullet.                        *)
(***************************************************************************)
EXTENDS Integers, Sequences, FiniteSets, TLC

VARIABLES
    variant,      \* which definition of run() executes: "validating" | "legacy"
    rootDirInput, \* the value of the root_dir input
    ignoreInput,  \* the value of the ignore input
    pc,           \* position of run()
    trace,        \* what run() and its stages did so far, in order
    items,        \* what fs.readdirSync(rootDir) returned to the folder validator
    cfgFile,      \* what the file system answered about the configuration file
    inflight,     \* the HTTP request awaiting its response (<<>> when none)
    httpCalls,    \* every axios.post issued, in order
    responses,    \* how every awaited axios.post ended, in order
    tempZip,      \* does <cwd>/repo-archive.zip exist on disk
    log,          \* core.debug / core.info / core.error calls, in order
    failed,       \* core.setFailed calls (their messages), in order
    raised,       \* the values raised by the stages, in order
    caught,       \* the values run()'s catch block received, in order
    rejected,     \* did the promise of run() reject
    tree,         \* the entries beneath the source directory, as paths of names
    walkPc,       \* position of the archive build: "inputs" | "archiving" | "built"
    ignoreList,   \* the ignore list run() hands to createZipArchive
    zipEntries,   \* the arguments of every zip.addLocalFile call, in order
    fsOps,        \* what createZipArchive did with each path, in order
    zipLog,       \* core.debug / core.info calls of createZipArchive, in order
    runs,         \* how many runs have started in the working directory
    leftover,     \* did repo-archive.zip exist when createZipArchive was called
    apiKey,       \* the value of the api_key input
    twinLog,      \* the log of the same run given the other API key
    twinFailed    \* the core.setFailed calls of the same run given the other API key

walkVars == <<tree, walkPc, ignoreList, zipEntries, fsOps, zipLog, runs, leftover>>

runVars == <<variant, pc, trace, items, cfgFile, inflight, httpCalls, responses,
             tempZip, log, failed, raised, caught, rejected>>

vars == <<variant, rootDirInput, ignoreInput, pc, trace, items, cfgFile, inflight,
          httpCalls, responses, tempZip, log, failed, raised, caught, rejected,
          walkVars, apiKey, twinLog, twinFailed>>

----------------------------------------------------------------------------
(* Bounds of the model *)

\* longest directory listing fs.readdirSync returns to the folder validator
MaxItems == 4

\* most entries (files and directories) beneath the source directory
MaxTreeNodes == 7

\* most runs that follow one another in one working directory
MaxRuns == 2

----------------------------------------------------------------------------
(* Strings *)

\* String.prototype.includes
Contains(s, t) ==
    \E i \in 1..(Len(s) - Len(t) + 1) : SubSeq(s, i, i + Len(t) - 1) = t

\* String.prototype.startsWith
StartsWith(s, t) == Len(t) <= Len(s) /\ SubSeq(s, 1, Len(t)) = t

UpperCase == "ABCDEFGHIJKLMNOPQRSTUVWXYZ"
LowerCase == "abcdefghijklmnopqrstuvwxyz"

ToLowerChar(c) ==
    IF \E i \in 1..Len(UpperCase) : SubSeq(UpperCase, i, i) = c
    THEN LET i == CHOOSE j \in 1..Len(UpperCase) : SubSeq(UpperCase, j, j) = c
         IN  SubSeq(LowerCase, i, i)
    ELSE c

RECURSIVE ToLowerCase(_)
\* String.prototype.toLowerCase, character by character
ToLowerCase(s) ==
    IF Len(s) = 0 THEN ""
    ELSE ToLowerChar(SubSeq(s, 1, 1)) \o ToLowerCase(SubSeq(s, 2, Len(s)))

RECURSIVE Join(_, _)
\* Array.prototype.join
Join(seq, sep) ==
    IF Len(seq) = 0 THEN ""
    ELSE IF Len(seq) = 1 THEN seq[1]
    ELSE seq[1] \o sep \o Join(Tail(seq), sep)

\* path.join of a directory and one name
PathJoin(dir, name) == dir \o "/" \o name

\* position of the last "/" of a path, 0 when it has none
LastSlash(p) ==
    LET at == { i \in 1..Len(p) : SubSeq(p, i, i) = "/" }
    IN  IF at = {} THEN 0 ELSE CHOOSE i \in at : \A j \in at : j <= i

\* path.dirname of a relative path that does not end in "/"
Dirname(p) == IF LastSlash(p) = 0 THEN "." ELSE SubSeq(p, 1, LastSlash(p) - 1)

\* path.basename of a path that does not end in "/"
Basename(p) == SubSeq(p, LastSlash(p) + 1, Len(p))

----------------------------------------------------------------------------
(* Raised values *)

NoBody == [error |-> ""]

\* new Error(message)
MkError(msg) ==
    [isError |-> TRUE, isAxios |-> FALSE, message |-> msg,
     hasResponse |-> FALSE, status |-> 0, data |-> NoBody]

\* a thrown value that is not an Error object (the tests throw a string)
NonError ==
    [isError |-> FALSE, isAxios |-> FALSE, message |-> "Not an Error object",
     hasResponse |-> FALSE, status |-> 0, data |-> NoBody]

\* an error of the HTTP client that carries the server's response
AxiosErrorWithResponse(st, body) ==
    [isError |-> TRUE, isAxios |-> TRUE,
     message |-> "Request failed with status code " \o ToString(st),
     hasResponse |-> TRUE, status |-> st, data |-> body]

\* an error of the HTTP client without a response (a bare network failure)
AxiosErrorNoResponse(msg) ==
    [isError |-> TRUE, isAxios |-> TRUE, message |-> msg,
     hasResponse |-> FALSE, status |-> 0, data |-> NoBody]

\* the keys a response body can carry, in the order the server writes them
BodyKeys ==
    <<"error", "repo_updated", "pushed_at", "tasks_uploaded", "tasks_current",
      "tasks_updated", "tasks_created", "tasks_deleted", "tasks_retained",
      "tasks_cached", "tasks_synchronized_with_cms">>

\* JSON.stringify of one member of a response body
JSONMember(body, k) ==
    "\"" \o k \o "\":" \o
    (IF k \in {"error", "pushed_at"} THEN "\"" \o body[k] \o "\""
     ELSE IF k = "repo_updated" THEN (IF body[k] THEN "true" ELSE "false")
     ELSE ToString(body[k]))

\* JSON.stringify of a response body (an object)
JSONStringify(body) ==
    LET present == SelectSeq(BodyKeys, LAMBDA k : k \in DOMAIN body)
        members == [i \in 1..Len(present) |-> JSONMember(body, present[i])]
    IN  "{" \o Join(members, ",") \o "}"

Info(msg)  == [level |-> "info",  msg |-> msg]
Debug(msg) == [level |-> "debug", msg |-> msg]
ErrorLog(msg) == [level |-> "error", msg |-> msg]

\* the result of one call: what it logged and what it raised (<<>> = returned)
Returned(logs)   == [logs |-> logs, thrown |-> <<>>]
Raised(logs, e)  == [logs |-> logs, thrown |-> <<e>>]

----------------------------------------------------------------------------
(* The file system the folder validator sees *)

\* names a directory entry can have; two groups collide after lower-casing
Names == {"docs", "Docs", "lib", "LIB", "notes.md"}

\* what fs.statSync(itemPath) gives: a directory, a regular file, or an
\* exception (an entry that vanished or a dangling link)
Kinds == {"dir", "file", "broken"}

HasDistinctNames(l) ==
    \A i, j \in 1..Len(l) : i # j => l[i].name # l[j].name

\* the listings of a directory: entries with pairwise different names
Listings ==
    { l \in UNION { [1..n -> [name : Names, kind : Kinds]] : n \in 0..MaxItems } :
        HasDistinctNames(l) }

\* the outcomes of fs.readdirSync(rootDir)
ReaddirOutcomes ==
    { [outcome |-> "ok", listing |-> l] : l \in Listings }
    \cup { [outcome |-> o, listing |-> <<>>] : o \in {"throwError", "throwNonError"} }

ScandirError(dir) ==
    MkError("ENOENT: no such file or directory, scandir '" \o dir \o "'")

StatError(path) ==
    MkError("ENOENT: no such file or directory, stat '" \o path \o "'")

----------------------------------------------------------------------------
(* validateUniqueFolderNames *)

\* the loop over items: folders collected until a statSync raises
RECURSIVE CollectFolders(_, _, _)
CollectFolders(dir, listing, folders) ==
    IF listing = <<>> THEN [folders |-> folders, thrown |-> <<>>]
    ELSE LET item == Head(listing) IN
         IF item.kind = "broken"
         THEN [folders |-> folders, thrown |-> <<StatError(PathJoin(dir, item.name))>>]
         ELSE CollectFolders(dir, Tail(listing),
                  IF item.kind = "dir" THEN Append(folders, item.name) ELSE folders)

HasKey(map, k) == \E i \in 1..Len(map) : map[i].key = k

\* folderMap after the loop over folders: the keys in insertion order, each
\* with its variants in insertion order
RECURSIVE BuildFolderMap(_)
BuildFolderMap(folders) ==
    IF folders = <<>> THEN <<>>
    ELSE LET map    == BuildFolderMap(SubSeq(folders, 1, Len(folders) - 1))
             folder == folders[Len(folders)]
             key    == ToLowerCase(folder)
         IN  IF HasKey(map, key)
             THEN [i \in 1..Len(map) |->
                     IF map[i].key = key
                     THEN [key |-> key, variants |-> Append(map[i].variants, folder)]
                     ELSE map[i]]
             ELSE Append(map, [key |-> key, variants |-> <<folder>>])

\* a validator that stops at the first duplicate
DuplicatesFirstOnly(map) ==
    LET all == SelectSeq(map, LAMBDA e : Len(e.variants) > 1)
    IN  IF all = <<>> THEN <<>> ELSE <<Head(all)>>

\* a validator that takes every folder for a duplicate
DuplicatesOffByOne(map) == SelectSeq(map, LAMBDA e : Len(e.variants) >= 1)

\* the entries of folderMap with more than one variant
Duplicates(map) == SelectSeq(map, LAMBDA e : Len(e.variants) > 1)

DuplicateLine(e) ==
    "  * " \o e.key \o " (variants: " \o Join(e.variants, ", ") \o ")\n"

RECURSIVE DuplicateLines(_)
DuplicateLines(dups) ==
    IF dups = <<>> THEN ""
    ELSE DuplicateLine(Head(dups)) \o DuplicateLines(Tail(dups))

DuplicatesMessage(dups) == "[x] Folder duplicates found:\n" \o DuplicateLines(dups)

\* the try block of validateUniqueFolderNames
FolderTry(dir, rd) ==
    IF rd.outcome = "throwError" THEN Raised(<<>>, ScandirError(dir))
    ELSE IF rd.outcome = "throwNonError" THEN Raised(<<>>, NonError)
    ELSE LET c == CollectFolders(dir, rd.listing, <<>>) IN
         IF c.thrown # <<>> THEN Raised(<<>>, c.thrown[1])
         ELSE IF Len(c.folders) = 0
         THEN Returned(<<Info("[i] No folders found to validate")>>)
         ELSE LET dups == Duplicates(BuildFolderMap(c.folders)) IN
              IF Len(dups) > 0
              THEN Raised(<<>>, MkError(DuplicatesMessage(dups)))
              ELSE Returned(<<Info("[ok] No folder duplicates found")>>)

\* a catch block that wraps every failure in its own message
FolderCatchWraps(e) ==
    IF e.isError THEN MkError("Folder validation failed: " \o e.message)
    ELSE MkError("Unknown error during folder validation")

\* a catch block that rethrows whatever it caught
FolderCatchRethrows(e) == e

\* the catch block of validateUniqueFolderNames
FolderCatch(e) ==
    IF e.isError THEN e ELSE MkError("Unknown error during folder validation")

ValidateUniqueFolderNames(dir, rd) ==
    LET start == <<Info("[search] Validating unique folder names...")>>
        r     == FolderTry(dir, rd)
    IN  IF r.thrown = <<>> THEN Returned(start \o r.logs)
        ELSE Raised(start \o r.logs, FolderCatch(r.thrown[1]))

----------------------------------------------------------------------------
(* The remote service *)

\* statuses a resolved axios.post can carry
ReturnedStatuses == {200, 201, 400}

\* statuses carried by an error of the HTTP client
ErrorStatuses == {400, 500}

\* bodies of error responses
ErrorBodies == { [error |-> "Bad Request"], [error |-> "Invalid schema"] }

\* bodies of the validation endpoint's responses (the code never reads them)
ValidationBodies == { NoBody }

\* bodies of the ingestion endpoint: the shape of the PumpRoomApiResponse
\* interface, and the shape the tests' mock returns
ApiResponses ==
    { [pushed_at |-> "2025-07-30T21:26:10.875969", tasks_uploaded |-> 5,
       tasks_created |-> 2, tasks_updated |-> 3, tasks_deleted |-> 1,
       tasks_retained |-> 4],
      [repo_updated |-> TRUE, pushed_at |-> "2025-07-30T21:26:10.875969",
       tasks_current |-> 33, tasks_updated |-> 33, tasks_created |-> 0,
       tasks_deleted |-> 1, tasks_cached |-> 33,
       tasks_synchronized_with_cms |-> 2] }

\* values an awaited call can reject with
Rejections ==
    { AxiosErrorWithResponse(st, b) : st \in ErrorStatuses, b \in ErrorBodies }
    \cup { AxiosErrorNoResponse("Network Error"),
           AxiosErrorNoResponse("timeout of 60000ms exceeded"),
           MkError("socket hang up"),
           NonError }

\* how an awaited axios.post ends
HttpOutcomes(bodies) ==
    { [kind |-> "response", status |-> st, data |-> b, error |-> NonError] :
        st \in ReturnedStatuses, b \in bodies }
    \cup { [kind |-> "reject", status |-> 0, data |-> NoBody, error |-> e] :
             e \in Rejections }

ValidationUrl == "https://pumproom-api.inzhenerka-cloud.com/inzhenerka_schema"
UploadUrl     == "https://pumproom-api.inzhenerka-cloud.com/repo/upload_tasks"
LegacyUploadUrl == "https://pumproom-api.inzhenerka-cloud.com/repo/index"

----------------------------------------------------------------------------
(* validateInzhenerkaYml *)

\* what the file system answers about <root>/.inzhenerka.yml
ConfigFileStates == {"absent", "unreadable", "readNonError", "present"}

ConfigContent == "course: demo"

ConfigPath(dir) == PathJoin(dir, ".inzhenerka.yml")

ConfigRequest ==
    [url |-> ValidationUrl,
     body |-> "{\"config_yml\":\"" \o ConfigContent \o "\"}",
     headers |-> {<<"Content-Type", "application/json">>},
     timeout |-> 60000]

\* a catch block that reports the error's message whether or not a response came
ConfigCatchMessageOnly(e) ==
    IF e.isAxios
    THEN MkError("[x] Configuration validation failed:\n" \o
                 "Error: " \o e.message \o "\n")
    ELSE IF e.isError THEN e
    ELSE MkError("Unknown error during configuration validation")

\* the catch block of validateInzhenerkaYml
ConfigCatch(e) ==
    IF e.isAxios
    THEN MkError("[x] Configuration validation failed:\n" \o
                 (IF e.hasResponse
                  THEN "Status code: " \o ToString(e.status) \o "\n" \o
                       "Response: " \o JSONStringify(e.data) \o "\n"
                  ELSE "Error: " \o e.message \o "\n"))
    ELSE IF e.isError THEN e
    ELSE MkError("Unknown error during configuration validation")

\* a validator that posts before it looks for the file
ConfigTryBeforePostsFirst(dir, file) ==
    IF file = "absent"
    THEN [request |-> <<ConfigRequest>>,
          thrown |-> <<MkError("[x] .inzhenerka.yml file not found")>>]
    ELSE IF file = "unreadable"
    THEN [request |-> <<>>,
          thrown |-> <<MkError("EACCES: permission denied, open '" \o ConfigPath(dir) \o "'")>>]
    ELSE IF file = "readNonError"
    THEN [request |-> <<>>, thrown |-> <<NonError>>]
    ELSE [request |-> <<ConfigRequest>>, thrown |-> <<>>]

\* the try block up to the await: the request to send (<<>> when none is sent)
ConfigTryBefore(dir, file) ==
    IF file = "absent"
    THEN [request |-> <<>>, thrown |-> <<MkError("[x] .inzhenerka.yml file not found")>>]
    ELSE IF file = "unreadable"
    THEN [request |-> <<>>,
          thrown |-> <<MkError("EACCES: permission denied, open '" \o ConfigPath(dir) \o "'")>>]
    ELSE IF file = "readNonError"
    THEN [request |-> <<>>, thrown |-> <<NonError>>]
    ELSE [request |-> <<ConfigRequest>>, thrown |-> <<>>]

\* a status check that takes every 2xx status for success
ConfigStatusCheckAny2xx(status) ==
    IF status >= 200 /\ status < 300
    THEN Returned(<<Info("[ok] Configuration is valid")>>)
    ELSE Raised(<<>>, MkError("[x] Configuration is invalid. HTTP status: "
                              \o ToString(status)))

\* the status check on the response
ConfigStatusCheck(status) ==
    IF status = 200
    THEN Returned(<<Info("[ok] Configuration is valid")>>)
    ELSE Raised(<<>>, MkError("[x] Configuration is invalid. HTTP status: "
                              \o ToString(status)))

\* the try block after the await
ConfigTryAfter(out) ==
    IF out.kind = "reject" THEN Raised(<<>>, out.error)
    ELSE ConfigStatusCheck(out.status)

\* validateInzhenerkaYml up to its await
ValidateInzhenerkaYmlStart(dir, file) ==
    LET start == <<Info("[search] Validating .inzhenerka.yml...")>>
        r     == ConfigTryBefore(dir, file)
    IN  [logs |-> start, request |-> r.request,
         thrown |-> IF r.thrown = <<>> THEN <<>> ELSE <<ConfigCatch(r.thrown[1])>>]

\* validateInzhenerkaYml from its await on
ValidateInzhenerkaYmlFinish(out) ==
    LET r == ConfigTryAfter(out)
    IN  IF r.thrown = <<>> THEN r ELSE Raised(r.logs, ConfigCatch(r.thrown[1]))

----------------------------------------------------------------------------
(* Inputs of the action and the process *)

\* process.cwd()
Cwd == "/work"

\* values of the root_dir input ("" when it is not set)
RootDirInputs == {"", "/repo"}

RealmInput    == "test-realm"
RepoNameInput == "test-repo"
ApiKeyInput   == "test-api-key"

\* core.getInput('root_dir') || process.cwd()
RootDir(input) == IF input = "" THEN Cwd ELSE input

\* path.join(process.cwd(), 'repo-archive.zip')
TempZipPath == PathJoin(Cwd, "repo-archive.zip")

----------------------------------------------------------------------------
(* formatPumpRoomResponse *)

Digits == "0123456789"

DigitValue(c) == (CHOOSE i \in 1..10 : SubSeq(Digits, i, i) = c) - 1

\* the number written by two decimal digits
TwoDigits(s) == 10 * DigitValue(SubSeq(s, 1, 1)) + DigitValue(SubSeq(s, 2, 2))

\* new Date(iso).toLocaleString() in the en-US locale, for a timestamp
\* YYYY-MM-DDTHH:MM:SS[.ffffff] without a zone; "Invalid Date" for undefined
ToLocaleString(response) ==
    IF "pushed_at" \notin DOMAIN response THEN "Invalid Date"
    ELSE LET iso  == response.pushed_at
             hour == TwoDigits(SubSeq(iso, 12, 13))
             h12  == IF hour % 12 = 0 THEN 12 ELSE hour % 12
         IN  ToString(TwoDigits(SubSeq(iso, 6, 7))) \o "/" \o
             ToString(TwoDigits(SubSeq(iso, 9, 10))) \o "/" \o
             SubSeq(iso, 1, 4) \o ", " \o
             ToString(h12) \o ":" \o SubSeq(iso, 15, 16) \o ":" \o
             SubSeq(iso, 18, 19) \o " " \o (IF hour < 12 THEN "AM" ELSE "PM")

\* `${response.field}`: the number in decimal, "undefined" for a missing field
Interpolate(response, field) ==
    IF field \in DOMAIN response THEN ToString(response[field]) ELSE "undefined"

Rule == "----------------------------------------"

FormatPumpRoomResponse(response) ==
    "\n" \o
    "PumpRoom Repository Update Summary:\n" \o
    Rule \o "\n" \o
    "Pushed At: " \o ToLocaleString(response) \o "\n" \o
    "\n" \o
    "Tasks Summary:\n" \o
    "  * Uploaded: " \o Interpolate(response, "tasks_uploaded") \o "\n" \o
    "  * Created: "  \o Interpolate(response, "tasks_created")  \o "\n" \o
    "  * Updated: "  \o Interpolate(response, "tasks_updated")  \o "\n" \o
    "  * Deleted: "  \o Interpolate(response, "tasks_deleted")  \o "\n" \o
    "  * Retained: " \o Interpolate(response, "tasks_retained") \o "\n" \o
    Rule \o "\n"

----------------------------------------------------------------------------
(* createZipArchive *)

\* how the walk over the source tree and the write of the archive end: the
\* walk raises (a readdirSync or statSync fails), the write raises, or both
\* complete
ArchiveOutcomes == {"ok", "walkError", "writeError"}

\* createZipArchive: its log, whether writeZip was called, and what it raised
CreateZipArchive(sourceDir, outputPath, outcome) ==
    LET start == <<Info("Creating ZIP archive...")>> IN
    IF outcome = "walkError"
    THEN [logs |-> start, wrote |-> FALSE, thrown |-> <<ScandirError(sourceDir)>>]
    ELSE IF outcome = "writeError"
    THEN [logs |-> start, wrote |-> TRUE,
          thrown |-> <<MkError("ENOSPC: no space left on device, write")>>]
    ELSE [logs |-> start \o <<Info("ZIP archive created at: " \o outputPath)>>,
          wrote |-> TRUE, thrown |-> <<>>]

\* The source tree.  An entry is the sequence of names that leads to it from
\* the source directory; the entries of DirPaths are directories, the others
\* regular files.
TreePaths ==
    { <<".git">>, <<".git", "config">>,
      <<"a">>, <<"a", "b">>, <<"a", "b", "c.txt">>, <<"a", "d.txt">>,
      <<"dist">>, <<"dist", "x.js">>,
      <<"empty">>,
      <<"redistribute.md">>,
      <<"top.txt">> }

DirPaths == { <<".git">>, <<"a">>, <<"a", "b">>, <<"dist">>, <<"empty">> }

\* fs.statSync(path).isDirectory()
IsDirectory(p) == p \in DirPaths

\* the trees of at most MaxTreeNodes entries: every entry lies in a directory
\* of the tree
Trees ==
    { t \in SUBSET TreePaths :
        /\ Cardinality(t) <= MaxTreeNodes
        /\ \A p \in t : Len(p) > 1 => SubSeq(p, 1, Len(p) - 1) \in t }

\* the order in which fs.readdirSync lists names
NameOrder ==
    <<".git", "a", "b", "c.txt", "config", "d.txt", "dist", "empty",
      "redistribute.md", "repo-archive.zip", "top.txt", "x.js">>

\* fs.readdirSync of the directory `dir` of tree t
Readdir(t, dir) == SelectSeq(NameOrder, LAMBDA n : Append(dir, n) \in t)

Op(op, path) == [op |-> op, path |-> path]

\* what a part of the walk did: its operations, the zip.addLocalFile calls
\* and the messages
Walked(ops, entries, logs) == [ops |-> ops, entries |-> entries, logs |-> logs]

Then(a, b) == Walked(a.ops \o b.ops, a.entries \o b.entries, a.logs \o b.logs)

\* an ignore test that compares the entry's name with the fragments
IsIgnoredByName(itemPath, ignore) ==
    \E i \in 1..Len(ignore) : Basename(itemPath) = ignore[i]

\* ignoreList.some((ignore) => itemPath.includes(ignore))
IsIgnored(itemPath, ignore) ==
    \E i \in 1..Len(ignore) : Contains(itemPath, ignore[i])

\* a relative path that keeps the name only
ItemRelativePathFlat(relativePath, item) == item

\* relativePath ? path.join(relativePath, item) : item
ItemRelativePath(relativePath, item) ==
    IF relativePath # "" THEN PathJoin(relativePath, item) ELSE item

\* an entry that is examined with statSync before the ignore test
IgnoredItemStatFirst(itemPath) ==
    Walked(<<Op("stat", itemPath), Op("check", itemPath)>>, <<>>,
           <<Debug("Ignoring: " \o itemPath)>>)

\* the branch of an entry the ignore test matches: a message, and `continue`
IgnoredItem(itemPath) ==
    Walked(<<Op("check", itemPath)>>, <<>>, <<Debug("Ignoring: " \o itemPath)>>)

\* the branch of a regular file: a message and zip.addLocalFile
FileItem(itemPath, itemRelativePath) ==
    Walked(<<Op("add", itemPath)>>,
           <<[localPath |-> itemPath,
              zipPath   |-> Dirname(itemRelativePath),
              zipName   |-> Basename(itemRelativePath)]>>,
           <<Debug("Adding file: " \o itemPath \o " as " \o itemRelativePath)>>)

RECURSIVE AddFilesToZip(_, _, _, _, _)
RECURSIVE WalkItems(_, _, _, _, _, _)

\* one round of the loop over the items of a directory
WalkItem(t, ignore, dir, currentPath, relativePath, item) ==
    LET itemPath == PathJoin(currentPath, item)
        itemRelativePath == ItemRelativePath(relativePath, item)
    IN  IF IsIgnored(itemPath, ignore) THEN IgnoredItem(itemPath)
        ELSE IF IsDirectory(Append(dir, item))
        THEN Then(Walked(<<Op("check", itemPath), Op("stat", itemPath)>>, <<>>, <<>>),
                  AddFilesToZip(t, ignore, Append(dir, item), itemPath,
                                itemRelativePath))
        ELSE Then(Walked(<<Op("check", itemPath), Op("stat", itemPath)>>, <<>>, <<>>),
                  FileItem(itemPath, itemRelativePath))

\* the loop over the items fs.readdirSync returned
WalkItems(t, ignore, dir, currentPath, relativePath, names) ==
    IF names = <<>> THEN Walked(<<>>, <<>>, <<>>)
    ELSE Then(WalkItem(t, ignore, dir, currentPath, relativePath, Head(names)),
              WalkItems(t, ignore, dir, currentPath, relativePath, Tail(names)))

\* addFilesToZip(currentPath, relativePath) on the directory `dir` of tree t
AddFilesToZip(t, ignore, dir, currentPath, relativePath) ==
    Then(Walked(<<Op("readdir", currentPath)>>, <<>>, <<>>),
         WalkItems(t, ignore, dir, currentPath, relativePath, Readdir(t, dir)))

\* a createZipArchive that writes the archive before it walks the tree
CreateZipArchiveWritesFirst(t, sourceDir, outputPath, ignore) ==
    Then(Walked(<<Op("writeZip", outputPath)>>, <<>>,
                <<Info("Creating ZIP archive...")>>),
         Then(AddFilesToZip(t, ignore, <<>>, sourceDir, ""),
              Walked(<<>>, <<>>, <<Info("ZIP archive created at: " \o outputPath)>>)))

\* createZipArchive(sourceDir, outputPath, ignoreList) on tree t, when no
\* file system call raises
CreateZipArchiveOn(t, sourceDir, outputPath, ignore) ==
    Then(Walked(<<>>, <<>>, <<Info("Creating ZIP archive...")>>),
         Then(AddFilesToZip(t, ignore, <<>>, sourceDir, ""),
              Walked(<<Op("writeZip", outputPath)>>, <<>>,
                     <<Info("ZIP archive created at: " \o outputPath)>>)))

----------------------------------------------------------------------------
(* uploadArchive *)

\* how fileFromPath(zipPath) ends
FileFromPathOutcomes == {"ok", "reject"}

UploadRequest(v, realm, repoName, key) ==
    IF v = "legacy"
    THEN [url |-> LegacyUploadUrl,
          body |-> <<<<"repo_name", repoName>>, <<"realm", realm>>,
                     <<"source", "github">>, <<"archive", TempZipPath>>>>,
          headers |-> {<<"X-API-KEY", key>>,
                       <<"Content-Type", "multipart/form-data">>},
          timeout |-> 0]
    ELSE [url |-> UploadUrl,
          body |-> <<<<"realm", realm>>, <<"repo_name", repoName>>,
                     <<"force_update", "false">>, <<"retain_deleted", "false">>,
                     <<"archive", TempZipPath>>>>,
          headers |-> {<<"X-API-KEY", key>>,
                       <<"Content-Type", "multipart/form-data">>},
          timeout |-> 600000]

\* a catch block of uploadArchive that wraps only the errors that carry a
\* response
UploadCatchWrapsResponsesOnly(e) ==
    IF e.isAxios /\ e.hasResponse
    THEN Raised(<<ErrorLog("[x] API request failed: " \o e.message),
                  ErrorLog("Status code: " \o ToString(e.status)),
                  ErrorLog("Response: " \o JSONStringify(e.data))>>,
                MkError("Unable to upload archive: " \o e.message))
    ELSE Raised(<<>>, e)

\* the catch block of uploadArchive: what it logs and what it raises
UploadCatch(e) ==
    IF e.isAxios
    THEN Raised(<<ErrorLog("[x] API request failed: " \o e.message)>> \o
                (IF e.hasResponse
                 THEN <<ErrorLog("Status code: " \o ToString(e.status)),
                        ErrorLog("Response: " \o JSONStringify(e.data))>>
                 ELSE <<>>),
                MkError("Unable to upload archive: " \o e.message))
    ELSE Raised(<<>>, e)

\* an uploadArchive that logs the headers of its request
UploadArchiveStartLogsHeaders(v, file, realm, repoName, key) ==
    LET start == <<Info("Uploading archive to PumpRoom..."),
                   Debug("Headers: X-API-KEY=" \o key)>> IN
    IF file = "reject"
    THEN LET c == UploadCatch(MkError("EACCES: permission denied, open '"
                                      \o TempZipPath \o "'"))
         IN  [logs |-> start \o c.logs, request |-> <<>>, thrown |-> c.thrown]
    ELSE [logs |-> start, request |-> <<UploadRequest(v, realm, repoName, key)>>,
          thrown |-> <<>>]

\* uploadArchive up to the await of axios.post
UploadArchiveStart(v, file, realm, repoName, key) ==
    LET start == <<Info("Uploading archive to PumpRoom...")>> IN
    IF file = "reject"
    THEN LET c == UploadCatch(MkError("EACCES: permission denied, open '"
                                      \o TempZipPath \o "'"))
         IN  [logs |-> start \o c.logs, request |-> <<>>, thrown |-> c.thrown]
    ELSE [logs |-> start, request |-> <<UploadRequest(v, realm, repoName, key)>>,
          thrown |-> <<>>]

\* a try block of uploadArchive that accepts every 2xx status
UploadTryAfterAny2xx(v, out) ==
    IF out.kind = "reject" THEN Raised(<<>>, out.error)
    ELSE LET status == <<Info("Response status: " \o ToString(out.status))>> \o
                       (IF v = "legacy"
                        THEN <<Info("Response: " \o JSONStringify(out.data))>>
                        ELSE <<>>)
         IN  IF out.status < 200 \/ out.status > 299
             THEN Raised(status, MkError("Unable to register repo, code: "
                                         \o ToString(out.status)))
             ELSE Returned(status \o
                           (IF v = "legacy" THEN <<>>
                            ELSE <<Info(FormatPumpRoomResponse(out.data))>>) \o
                           <<Info("[ok] Repo and tasks successfully registered")>>)

\* the try block of uploadArchive after the await
UploadTryAfter(v, out) ==
    IF out.kind = "reject" THEN Raised(<<>>, out.error)
    ELSE LET status == <<Info("Response status: " \o ToString(out.status))>> \o
                       (IF v = "legacy"
                        THEN <<Info("Response: " \o JSONStringify(out.data))>>
                        ELSE <<>>)
         IN  IF out.status # 200
             THEN Raised(status, MkError("Unable to register repo, code: "
                                         \o ToString(out.status)))
             ELSE Returned(status \o
                           (IF v = "legacy" THEN <<>>
                            ELSE <<Info(FormatPumpRoomResponse(out.data))>>) \o
                           <<Info("[ok] Repo and tasks successfully registered")>>)

\* uploadArchive from the await of axios.post on
UploadArchiveFinish(v, out) ==
    LET r == UploadTryAfter(v, out)
    IN  IF r.thrown = <<>> THEN r
        ELSE LET c == UploadCatch(r.thrown[1])
             IN  Raised(r.logs \o c.logs, c.thrown[1])

----------------------------------------------------------------------------
(* The ignore list *)

\* String.prototype.split on a one-character separator
RECURSIVE Split(_, _)
Split(s, sep) ==
    IF ~Contains(s, sep) THEN <<s>>
    ELSE LET i == CHOOSE j \in 1..Len(s) :
                      /\ SubSeq(s, j, j) = sep
                      /\ \A k \in 1..(j - 1) : SubSeq(s, k, k) # sep
         IN  <<SubSeq(s, 1, i - 1)>> \o Split(SubSeq(s, i + 1, Len(s)), sep)

IsSpace(c) == c \in {" ", "\t", "\n"}

\* String.prototype.trim
RECURSIVE Trim(_)
Trim(s) ==
    IF Len(s) = 0 THEN s
    ELSE IF IsSpace(SubSeq(s, 1, 1)) THEN Trim(SubSeq(s, 2, Len(s)))
    ELSE IF IsSpace(SubSeq(s, Len(s), Len(s))) THEN Trim(SubSeq(s, 1, Len(s) - 1))
    ELSE s

\* values of the ignore input ("" when it is not set)
IgnoreInputs == {"", "node_modules, dist"}

\* an ignore list whose pieces keep their white space
IgnoreListUntrimmed(input) ==
    <<".git", ".github">> \o (IF input # "" THEN Split(input, ",") ELSE <<>>)

\* the ignore list run() builds from the ignore input
IgnoreList(input) ==
    <<".git", ".github">> \o
    (IF input # ""
     THEN LET parts == Split(input, ",")
          IN  [i \in 1..Len(parts) |-> Trim(parts[i])]
     ELSE <<>>)

----------------------------------------------------------------------------
(* run *)

Variants == {"validating", "legacy"}

\* a run() that removes the temporary file before it uploads it
StageListCleanupFirst(v) ==
    IF v = "validating"
    THEN <<"FolderValidation", "ConfigValidation", "Archiving", "Cleanup", "Uploading">>
    ELSE <<"Archiving", "Cleanup", "Uploading">>

\* the stages of run(), in the order of its statements
StageList(v) ==
    IF v = "validating"
    THEN <<"FolderValidation", "ConfigValidation", "Archiving", "Uploading", "Cleanup">>
    ELSE <<"Archiving", "Uploading", "Cleanup">>

IndexOf(seq, x) == CHOOSE i \in 1..Len(seq) : seq[i] = x

\* where run() continues when a stage returned
NextPc(v, stage) ==
    LET l == StageList(v)
        i == IndexOf(l, stage)
    IN  IF i = Len(l) THEN "Done" ELSE l[i + 1]

\* a run() whose stages' failures do not leave the try block
AfterRaiseContinues(v, stage) == NextPc(v, stage)

\* where run() continues when a stage raised: the try block is left
AfterRaise(v, stage) == "Failed"

\* a catch clause that takes Error objects only
RunCatchesErrorsOnly(e) == e.isError

\* the catch clause of run() takes every raised value
RunCatches(e) == TRUE

\* the message run()'s catch block hands to core.setFailed
RunCatchMessage(e) ==
    IF e.isError THEN e.message ELSE "An unknown error occurred"

Event(stage, ev) == [stage |-> stage, ev |-> ev]

\* a stage ends: it returned (thrown = <<>>) or raised thrown[1]; evs are the
\* events of the stage, logs what it logged
StageEnds(stage, evs, logs, thrown) ==
    IF thrown = <<>>
    THEN /\ pc' = NextPc(variant, stage)
         /\ trace' = trace \o evs \o <<Event(stage, "return")>>
         /\ log' = log \o logs
         /\ UNCHANGED <<raised, caught, failed, rejected>>
    ELSE LET e == thrown[1] IN
         /\ pc' = AfterRaise(variant, stage)
         /\ raised' = Append(raised, e)
         /\ log' = log \o logs
         /\ IF pc' # "Failed"
            THEN /\ trace' = trace \o evs \o <<Event(stage, "raise")>>
                 /\ UNCHANGED <<caught, failed, rejected>>
            ELSE IF RunCatches(e)
            THEN /\ trace' = trace \o evs \o
                        <<Event(stage, "raise"), Event(stage, "setFailed")>>
                 /\ caught' = Append(caught, e)
                 /\ failed' = Append(failed, RunCatchMessage(e))
                 /\ UNCHANGED rejected
            ELSE /\ trace' = trace \o evs \o <<Event(stage, "raise")>>
                 /\ rejected' = TRUE
                 /\ UNCHANGED <<caught, failed>>

\* a stage suspends at an await
StageAwaits(stage, awaitPc, evs, logs) ==
    /\ pc' = awaitPc
    /\ trace' = trace \o evs
    /\ log' = log \o logs
    /\ UNCHANGED <<raised, caught, failed, rejected>>

\* values of the api_key input
ApiKeyInputs == {ApiKeyInput, "other-api-key"}

OtherKey(key) == CHOOSE k \in ApiKeyInputs : k # key

\* what the same step adds to the log and to the core.setFailed calls of the
\* run given the other API key, whose stage logged `logs` and raised `thrown`
TwinEmits(stage, logs, thrown) ==
    /\ twinLog' = twinLog \o logs
    /\ twinFailed' = IF /\ thrown # <<>>
                        /\ AfterRaise(variant, stage) = "Failed"
                        /\ RunCatches(thrown[1])
                     THEN Append(twinFailed, RunCatchMessage(thrown[1]))
                     ELSE twinFailed

\* a stage that is not handed the API key ends
StageEndsSame(stage, evs, logs, thrown) ==
    /\ StageEnds(stage, evs, logs, thrown)
    /\ TwinEmits(stage, logs, thrown)

\* a stage that is not handed the API key suspends at an await
StageAwaitsSame(stage, awaitPc, evs, logs) ==
    /\ StageAwaits(stage, awaitPc, evs, logs)
    /\ TwinEmits(stage, logs, <<>>)

\* the archive build is not looked into
WalkIdle ==
    /\ tree = {}
    /\ walkPc = "idle"
    /\ ignoreList = <<>>
    /\ zipEntries = <<>>
    /\ fsOps = <<>>
    /\ zipLog = <<>>
    /\ runs = 0
    /\ leftover = FALSE

Init ==
    /\ variant \in Variants
    /\ rootDirInput \in RootDirInputs
    /\ ignoreInput \in IgnoreInputs
    /\ pc = "Init"
    /\ trace = <<>>
    /\ items = <<>>
    /\ cfgFile = "unknown"
    /\ inflight = <<>>
    /\ httpCalls = <<>>
    /\ responses = <<>>
    /\ tempZip = FALSE
    /\ log = <<>>
    /\ failed = <<>>
    /\ raised = <<>>
    /\ caught = <<>>
    /\ rejected = FALSE
    /\ WalkIdle
    /\ apiKey = ApiKeyInput
    /\ twinLog = <<>>
    /\ twinFailed = <<>>

\* run() reads its inputs and logs the root directory and the ignore list
Start ==
    /\ pc = "Init"
    /\ pc' = Head(StageList(variant))
    /\ log' = log \o <<Debug("Root directory: " \o RootDir(rootDirInput)),
                       Debug("Ignore list: " \o Join(IgnoreList(ignoreInput), ", "))>>
    /\ UNCHANGED <<walkVars, apiKey>>
    /\ twinLog' = twinLog \o <<Debug("Root directory: " \o RootDir(rootDirInput)),
                               Debug("Ignore list: "
                                     \o Join(IgnoreList(ignoreInput), ", "))>>
    /\ UNCHANGED <<variant, rootDirInput, ignoreInput, trace, items, cfgFile, inflight,
                   httpCalls, responses, tempZip, failed, raised, caught, rejected,
                   twinFailed>>

\* await validateUniqueFolderNames(rootDir)
FolderValidation ==
    /\ pc = "FolderValidation"
    /\ \E rd \in ReaddirOutcomes :
         LET r == ValidateUniqueFolderNames(RootDir(rootDirInput), rd) IN
         /\ items' = rd.listing
         /\ StageEndsSame("FolderValidation",
                      <<Event("FolderValidation", "start"),
                        Event("FolderValidation", "readdirSync:" \o rd.outcome)>>,
                      r.logs, r.thrown)
    /\ UNCHANGED <<walkVars, apiKey>>
    /\ UNCHANGED <<variant, rootDirInput, ignoreInput, cfgFile, inflight, httpCalls,
                   responses, tempZip>>

\* validateInzhenerkaYml(rootDir) runs up to its await of axios.post
ConfigValidationRequest ==
    /\ pc = "ConfigValidation"
    /\ \E file \in ConfigFileStates :
         LET r == ValidateInzhenerkaYmlStart(RootDir(rootDirInput), file) IN
         /\ cfgFile' = file
         /\ IF r.thrown = <<>>
            THEN /\ inflight' = r.request
                 /\ httpCalls' = httpCalls \o r.request
                 /\ StageAwaitsSame("ConfigValidation", "ConfigAwait",
                                <<Event("ConfigValidation", "start")>> \o
                                [i \in 1..Len(r.request) |->
                                    Event("ConfigValidation", "post")],
                                r.logs)
            ELSE /\ inflight' = <<>>
                 /\ httpCalls' = httpCalls \o r.request
                 /\ StageEndsSame("ConfigValidation",
                              <<Event("ConfigValidation", "start")>> \o
                              [i \in 1..Len(r.request) |->
                                  Event("ConfigValidation", "post")],
                              r.logs, r.thrown)
    /\ UNCHANGED <<walkVars, apiKey>>
    /\ UNCHANGED <<variant, rootDirInput, ignoreInput, items, responses, tempZip>>

\* the awaited axios.post of validateInzhenerkaYml ends
ConfigValidationResponse ==
    /\ pc = "ConfigAwait"
    /\ \E out \in HttpOutcomes(ValidationBodies) :
         LET r == ValidateInzhenerkaYmlFinish(out) IN
         /\ responses' = Append(responses, out)
         /\ inflight' = <<>>
         /\ StageEndsSame("ConfigValidation", <<Event("ConfigValidation", out.kind)>>,
                      r.logs, r.thrown)
    /\ UNCHANGED <<walkVars, apiKey>>
    /\ UNCHANGED <<variant, rootDirInput, ignoreInput, items, cfgFile, httpCalls,
                   tempZip>>

\* await createZipArchive(rootDir, tempZipPath, ignoreList)
Archiving ==
    /\ pc = "Archiving"
    /\ \E outcome \in ArchiveOutcomes, partial \in BOOLEAN :
         LET r == CreateZipArchive(RootDir(rootDirInput), TempZipPath, outcome) IN
         \* a write that raises may or may not leave a file behind
         /\ (outcome # "writeError") => partial
         /\ tempZip' = IF r.wrote THEN (tempZip \/ partial) ELSE tempZip
         /\ StageEndsSame("Archiving",
                      <<Event("Archiving", "start"),
                        Event("Archiving", IF outcome = "walkError"
                                           THEN "walk:throw" ELSE "walk:ok")>> \o
                      (IF r.wrote THEN <<Event("Archiving", "writeZip")>> ELSE <<>>) \o
                      (IF outcome = "writeError"
                       THEN <<Event("Archiving", "writeZip:throw")>> ELSE <<>>),
                      r.logs, r.thrown)
    /\ UNCHANGED <<walkVars, apiKey>>
    /\ UNCHANGED <<variant, rootDirInput, ignoreInput, items, cfgFile, inflight,
                   httpCalls, responses>>

\* uploadArchive(tempZipPath, realm, repoName, apiKey) runs up to its await
\* of axios.post
UploadRequestSent ==
    /\ pc = "Uploading"
    /\ \E file \in FileFromPathOutcomes :
         LET r == UploadArchiveStart(variant, file, RealmInput, RepoNameInput,
                                     apiKey)
             twin == UploadArchiveStart(variant, file, RealmInput, RepoNameInput,
                                        OtherKey(apiKey))
             evs == <<Event("Uploading", "start"),
                      Event("Uploading", "fileFromPath:" \o file)>> \o
                    [i \in 1..Len(r.request) |-> Event("Uploading", "post")]
         IN
         /\ httpCalls' = httpCalls \o r.request
         /\ inflight' = r.request
         /\ IF r.thrown = <<>>
            THEN StageAwaits("Uploading", "UploadAwait", evs, r.logs)
            ELSE StageEnds("Uploading", evs, r.logs, r.thrown)
         /\ TwinEmits("Uploading", twin.logs, twin.thrown)
    /\ UNCHANGED <<walkVars, apiKey>>
    /\ UNCHANGED <<variant, rootDirInput, ignoreInput, items, cfgFile, responses,
                   tempZip>>

\* the awaited axios.post of uploadArchive ends
UploadResponse ==
    /\ pc = "UploadAwait"
    /\ \E out \in HttpOutcomes(ApiResponses) :
         LET r == UploadArchiveFinish(variant, out) IN
         /\ responses' = Append(responses, out)
         /\ inflight' = <<>>
         /\ StageEndsSame("Uploading", <<Event("Uploading", out.kind)>>, r.logs, r.thrown)
    /\ UNCHANGED <<walkVars, apiKey>>
    /\ UNCHANGED <<variant, rootDirInput, ignoreInput, items, cfgFile, httpCalls,
                   tempZip>>

\* how fs.unlinkSync(tempZipPath) ends
UnlinkOutcomes == {"ok", "throw"}

\* fs.unlinkSync(tempZipPath) and the final message of run()
Cleanup ==
    /\ pc = "Cleanup"
    /\ \E u \in UnlinkOutcomes :
         \* a file that does not exist cannot be removed
         /\ (u = "ok") => tempZip
         /\ tempZip' = IF u = "ok" THEN FALSE ELSE tempZip
         /\ IF u = "ok"
            THEN StageEndsSame("Cleanup",
                           <<Event("Cleanup", "start"), Event("Cleanup", "unlinkSync")>>,
                           <<Info("[ok] Repository successfully published to PumpRoom")>>,
                           <<>>)
            ELSE StageEndsSame("Cleanup",
                           <<Event("Cleanup", "start"), Event("Cleanup", "unlinkSync"),
                             Event("Cleanup", "unlinkSync:throw")>>,
                           <<>>,
                           <<MkError("EPERM: operation not permitted, unlink '"
                                     \o TempZipPath \o "'")>>)
    /\ UNCHANGED <<walkVars, apiKey>>
    /\ UNCHANGED <<variant, rootDirInput, ignoreInput, items, cfgFile, inflight,
                   httpCalls, responses>>

Next ==
    \/ Start
    \/ FolderValidation
    \/ ConfigValidationRequest
    \/ ConfigValidationResponse
    \/ Archiving
    \/ UploadRequestSent
    \/ UploadResponse
    \/ Cleanup

Spec == Init /\ [][Next]_vars

\* run() is a single thread of control: whenever it can take a step it does
FairSpec == Spec /\ WF_vars(Next)

----------------------------------------------------------------------------
(* The archive build of run(), on a source tree *)

\* values of the root_dir input for the archive build; the last one has an
\* ignore fragment inside the path of the source directory
WalkRootDirInputs == RootDirInputs \cup {"/work/site.github.io"}

\* values of the ignore input for the archive build
WalkIgnoreInputs == IgnoreInputs \cup {"dist", "dist,", "a/b , top"}

WalkInit ==
    /\ variant = "validating"
    /\ rootDirInput \in WalkRootDirInputs
    /\ ignoreInput \in WalkIgnoreInputs
    /\ pc = "Archiving"
    /\ trace = <<>>
    /\ items = <<>>
    /\ cfgFile = "unknown"
    /\ inflight = <<>>
    /\ httpCalls = <<>>
    /\ responses = <<>>
    /\ tempZip = FALSE
    /\ log = <<>>
    /\ failed = <<>>
    /\ raised = <<>>
    /\ caught = <<>>
    /\ rejected = FALSE
    /\ tree \in Trees
    /\ walkPc = "inputs"
    /\ ignoreList = <<>>
    /\ zipEntries = <<>>
    /\ fsOps = <<>>
    /\ zipLog = <<>>
    /\ runs = 1
    /\ leftover = FALSE
    /\ apiKey = ApiKeyInput
    /\ twinLog = <<>>
    /\ twinFailed = <<>>

\* what lies beneath the source directory: the repository content and, when
\* the source directory is the working directory, the archive file
\* <cwd>/repo-archive.zip if it exists
DiskTree(t, sourceDir, zipExists) ==
    IF zipExists /\ sourceDir = Cwd THEN t \cup {<<"repo-archive.zip">>} ELSE t

\* run() builds the ignore list from the ignore input
ReadInputs ==
    /\ walkPc = "inputs"
    /\ ignoreList' = IgnoreList(ignoreInput)
    /\ walkPc' = "archiving"
    /\ UNCHANGED <<tree, zipEntries, fsOps, zipLog, runs, leftover, rootDirInput,
                   ignoreInput, runVars, apiKey, twinLog, twinFailed>>

\* await createZipArchive(rootDir, tempZipPath, ignoreList)
BuildArchive ==
    /\ walkPc = "archiving"
    /\ LET w == CreateZipArchiveOn(DiskTree(tree, RootDir(rootDirInput), tempZip),
                                   RootDir(rootDirInput), TempZipPath, ignoreList)
       IN  /\ zipEntries' = w.entries
           /\ fsOps' = w.ops
           /\ zipLog' = w.logs
    /\ leftover' = tempZip
    /\ tempZip' = TRUE
    /\ walkPc' = "built"
    /\ UNCHANGED <<tree, runs, ignoreList, rootDirInput, ignoreInput, variant, pc, trace,
                   items, cfgFile, inflight, httpCalls, responses, log, failed,
                   raised, caught, rejected, apiKey, twinLog, twinFailed>>

\* the next run starts in the same working directory, on the same repository
NextRunStarts ==
    /\ runs < MaxRuns
    /\ runs' = runs + 1
    /\ walkPc' = "inputs"
    /\ ignoreList' = <<>>
    /\ zipEntries' = <<>>
    /\ fsOps' = <<>>
    /\ zipLog' = <<>>
    /\ leftover' = FALSE
    /\ UNCHANGED <<tree, rootDirInput, ignoreInput, variant, pc, trace, items, cfgFile,
                   inflight, httpCalls, responses, log, failed, raised, caught,
                   rejected, apiKey, twinLog, twinFailed>>

\* the rest of a run whose uploadArchive returns: fs.unlinkSync(tempZipPath)
\* removes the archive file; another run follows
RunSucceeds ==
    /\ walkPc = "built"
    /\ tempZip' = FALSE
    /\ NextRunStarts

\* the rest of a run whose uploadArchive raises: run() goes to its catch
\* block and the archive file stays; another run follows
RunFails ==
    /\ walkPc = "built"
    /\ tempZip' = tempZip
    /\ NextRunStarts

WalkNext ==
    \/ ReadInputs
    \/ BuildArchive
    \/ RunSucceeds
    \/ RunFails

WalkSpec == WalkInit /\ [][WalkNext]_vars

----------------------------------------------------------------------------
(* run() under each API key *)

KeyInit ==
    /\ variant \in Variants
    /\ rootDirInput = ""
    /\ ignoreInput = ""
    /\ pc = "Init"
    /\ trace = <<>>
    /\ items = <<>>
    /\ cfgFile = "unknown"
    /\ inflight = <<>>
    /\ httpCalls = <<>>
    /\ responses = <<>>
    /\ tempZip = FALSE
    /\ log = <<>>
    /\ failed = <<>>
    /\ raised = <<>>
    /\ caught = <<>>
    /\ rejected = FALSE
    /\ WalkIdle
    /\ apiKey \in ApiKeyInputs
    /\ twinLog = <<>>
    /\ twinFailed = <<>>

KeySpec == KeyInit /\ [][Next]_vars

----------------------------------------------------------------------------
(* Reading the state *)

Terminal == pc \in {"Done", "Failed"}

Happened(stage, ev) == \E i \in 1..Len(trace) : trace[i] = Event(stage, ev)

Count(ev) == Cardinality({ i \in 1..Len(trace) : trace[i].ev = ev })

\* the stages started so far, in order
StagesStarted ==
    LET starts == SelectSeq(trace, LAMBDA e : e.ev = "start")
    IN  [i \in 1..Len(starts) |-> starts[i].stage]

IsPrefix(a, b) == Len(a) <= Len(b) /\ \A i \in 1..Len(a) : a[i] = b[i]

Logged(level, msg) == \E i \in 1..Len(log) : log[i] = [level |-> level, msg |-> msg]

SuccessLogged == Logged("info", "[ok] Repository successfully published to PumpRoom")

\* the events that act on the outside world
IsOperation(e) ==
    e.ev \in {"post", "writeZip", "unlinkSync", "fileFromPath:ok", "fileFromPath:reject",
              "readdirSync:ok", "readdirSync:throwError", "readdirSync:throwNonError",
              "start"}

\* no call to the file system raised, and the configuration file was there
FileSystemSucceeded ==
    /\ \A i \in 1..Len(trace) :
         trace[i].ev \notin {"readdirSync:throwError", "readdirSync:throwNonError",
                             "walk:throw", "writeZip:throw", "unlinkSync:throw",
                             "fileFromPath:reject"}
    /\ \A i \in 1..Len(items) : items[i].kind # "broken"
    /\ cfgFile \in {"unknown", "present"}

\* every remote call that ended returned status 200
RemoteCallsSucceeded ==
    \A i \in 1..Len(responses) :
        responses[i].kind = "response" /\ responses[i].status = 200

\* the lower-case form of a name, written out for the names of the model
LowerName(n) ==
    CASE n = "docs" -> "docs" [] n = "Docs" -> "docs"
      [] n = "lib" -> "lib"   [] n = "LIB" -> "lib"
      [] OTHER -> n

\* the subdirectories of the listing that was read, in listing order
Subdirectories ==
    LET dirs == SelectSeq(items, LAMBDA it : it.kind = "dir")
    IN  [i \in 1..Len(dirs) |-> dirs[i].name]

\* no two subdirectories share a lower-cased name
NoDuplicateFolders ==
    \A i, j \in 1..Len(Subdirectories) :
        i # j => LowerName(Subdirectories[i]) # LowerName(Subdirectories[j])

----------------------------------------------------------------------------
(* C1 *)

\* C1: the stages start in the order folder validation, configuration
\* validation, archive building, upload, cleanup (the second definition of
\* run() has the last three only); a stage starts only after the previous one
\* returned, and once a stage raised nothing of a later stage happens: no HTTP
\* call after a folder-validation failure, no archive write and no upload
\* request after a configuration-validation failure, no upload request after
\* an archiving failure.
C1_StagesInOrder ==
    /\ IsPrefix(StagesStarted,
                IF variant = "validating"
                THEN <<"FolderValidation", "ConfigValidation", "Archiving",
                       "Uploading", "Cleanup">>
                ELSE <<"Archiving", "Uploading", "Cleanup">>)
    /\ \A i \in 1..Len(trace) :
         /\ (trace[i].ev = "start" /\ \E j \in 1..(i - 1) : trace[j].ev = "start")
              => /\ trace[i - 1].ev = "return"
                 /\ \A j \in 1..(i - 1) : trace[j].ev # "raise"
         /\ trace[i].ev = "raise"
              => \A j \in (i + 1)..Len(trace) : ~IsOperation(trace[j])
    /\ Happened("FolderValidation", "raise") => httpCalls = <<>>
    /\ Happened("ConfigValidation", "raise")
         => /\ Count("writeZip") = 0
            /\ \A i \in 1..Len(httpCalls) : httpCalls[i].url = ValidationUrl
    /\ Happened("Archiving", "raise")
         => \A i \in 1..Len(httpCalls) : httpCalls[i].url = ValidationUrl

\* an archiving failure of the first definition of run(), after both
\* validations passed
C1_Witness ==
    /\ variant = "validating"
    /\ pc = "Failed"
    /\ Happened("ConfigValidation", "return")
    /\ Happened("Archiving", "raise")

----------------------------------------------------------------------------
(* C2 *)

\* C2: a run ends with exactly one reported outcome: the final success message
\* and no setFailed, or one setFailed and no final success message; every
\* raised value is caught once by run(), which never rejects; a run that has
\* not ended can take a step and has reported nothing; and a run in which no
\* the file system and both remote calls succeeded (and the repository has no
\* duplicate folders) ends with the success message and no reported failure.
C2_ExactlyOneOutcome ==
    /\ ~rejected
    /\ caught = raised
    /\ Len(raised) <= 1
    /\ Len(failed) = Len(caught)
    /\ Terminal => \/ (SuccessLogged /\ failed = <<>> /\ pc = "Done")
                   \/ (~SuccessLogged /\ Len(failed) = 1 /\ pc = "Failed")
    /\ ~Terminal => (failed = <<>> /\ ~SuccessLogged /\ ENABLED Next)
    /\ (Terminal /\ FileSystemSucceeded /\ RemoteCallsSucceeded /\ NoDuplicateFolders)
         => (pc = "Done" /\ SuccessLogged /\ failed = <<>>)

\* a run reported as failed because a stage threw a value that is no Error
C2_Witness ==
    /\ pc = "Failed"
    /\ Len(caught) = 1
    /\ ~caught[1].isError
    /\ failed = <<"An unknown error occurred">>

----------------------------------------------------------------------------
(* C3 *)

\* C3: whenever a run has ended, in Done or in Failed, the temporary archive
\* file that run created no longer exists on disk.
C3_TempFileRemovedAtEnd ==
    (Terminal /\ Happened("Archiving", "return")) => ~tempZip

----------------------------------------------------------------------------
(* C4 *)

\* C4: the unlink of the temporary archive is attempted at most once, only
\* after the upload stage returned, in every ended run whose upload returned,
\* and never in a run that failed during folder validation, configuration
\* validation, archiving or uploading; when the final success message is
\* logged the temporary file is gone.
C4_CleanupOnlyAfterUpload ==
    /\ Count("unlinkSync") <= 1
    /\ \A i \in 1..Len(trace) :
         trace[i].ev = "unlinkSync"
           => \E j \in 1..(i - 1) : trace[j] = Event("Uploading", "return")
    /\ Terminal => (Count("unlinkSync") = 1 <=> Happened("Uploading", "return"))
    /\ \A st \in {"FolderValidation", "ConfigValidation", "Archiving", "Uploading"} :
         Happened(st, "raise") => Count("unlinkSync") = 0
    /\ SuccessLogged => (~tempZip /\ Count("unlinkSync") = 1)

\* a successful run: uploaded, unlinked, success logged
C4_Witness ==
    /\ pc = "Done"
    /\ Happened("Uploading", "return")
    /\ Count("unlinkSync") = 1
    /\ SuccessLogged

----------------------------------------------------------------------------
(* Reading the outcome of the validators *)

\* the folder validator got a listing and could classify every entry of it
ListingClassified ==
    /\ Happened("FolderValidation", "readdirSync:ok")
    /\ \A i \in 1..Len(items) : items[i].kind # "broken"

\* lower-cased names shared by two or more of the given names
SharedKeys(names) ==
    { LowerName(names[i]) : i \in { i \in 1..Len(names) :
        \E j \in 1..Len(names) : j # i /\ LowerName(names[j]) = LowerName(names[i]) } }

EntryNames == [i \in 1..Len(items) |-> items[i].name]

\* the line the failure message is to hold for a colliding group
GroupLine(names, key) ==
    "  * " \o key \o " (variants: " \o
    Join(SelectSeq(names, LAMBDA n : LowerName(n) = key), ", ") \o ")\n"

LineCount(msg) == Cardinality({ i \in 1..Len(msg) : SubSeq(msg, i, i) = "\n" })

\* the decimal form of a status, written out for the statuses of the model
StatusText(st) ==
    CASE st = 200 -> "200" [] st = 201 -> "201" [] st = 400 -> "400"
      [] st = 500 -> "500" [] OTHER -> "?"

\* the folder validator failed with one message that lists every group of
\* `names` that collides
FailsListingGroups(names) ==
    /\ Happened("FolderValidation", "raise")
    /\ Len(raised) = 1
    /\ raised[1].isError
    /\ StartsWith(raised[1].message, "[x] Folder duplicates found:\n")
    /\ \A key \in SharedKeys(names) : Contains(raised[1].message, GroupLine(names, key))
    /\ LineCount(raised[1].message) = 1 + Cardinality(SharedKeys(names))

\* the validation request ended, and this is how
ValidationEnded == variant = "validating" /\ Len(responses) >= 1

----------------------------------------------------------------------------
(* C5 *)

\* C5 as stated: for every listing with at least two entries that share a
\* lower-cased name, validateUniqueFolderNames fails, and its single failure
\* message lists every colliding group, one line per group in the form
\* key (variants: v1, v2, ...).
C5_FailsOnCollidingEntries ==
    (ListingClassified /\ SharedKeys(EntryNames) # {})
        => FailsListingGroups(EntryNames)

\* C5 as amended: for every listing with at least two subdirectories that
\* share a lower-cased name (the listing read and every entry classified
\* without error), validateUniqueFolderNames fails, and its single failure
\* message lists every colliding group of subdirectories, one line per group
\* in the form key (variants: v1, v2, ...).
C5_FailsOnCollidingFolders ==
    (ListingClassified /\ SharedKeys(Subdirectories) # {})
        => FailsListingGroups(Subdirectories)

\* a listing with two colliding groups of subdirectories was validated
C5_Witness ==
    /\ ListingClassified
    /\ Cardinality(SharedKeys(Subdirectories)) = 2
    /\ pc = "Failed"

----------------------------------------------------------------------------
(* C6 *)

\* C6: for every listing whose subdirectory names are pairwise distinct after
\* lower-casing, validateUniqueFolderNames returns without raising; with zero
\* subdirectories it logs 'No folders found to validate' and never
\* 'No folder duplicates found'.
C6_SucceedsOnDistinctFolders ==
    (ListingClassified /\ NoDuplicateFolders)
        => /\ Happened("FolderValidation", "return")
           /\ ~Happened("FolderValidation", "raise")
           /\ Len(Subdirectories) = 0
                => /\ Logged("info", "[i] No folders found to validate")
                   /\ ~Logged("info", "[ok] No folder duplicates found")
           /\ Len(Subdirectories) > 0
                => ~Logged("info", "[i] No folders found to validate")

\* a listing that holds files only went through the validator
C6_Witness ==
    /\ ListingClassified
    /\ Len(items) > 0
    /\ Len(Subdirectories) = 0
    /\ Happened("FolderValidation", "return")

----------------------------------------------------------------------------
(* C7 *)

\* C7: when .inzhenerka.yml is absent, validateInzhenerkaYml fails with the
\* 'file not found' error and no HTTP request is issued, in that call or
\* anywhere in the run.
C7_AbsentConfigNoHttp ==
    cfgFile = "absent"
        => /\ Happened("ConfigValidation", "raise")
           /\ Len(raised) = 1
           /\ raised[1].isError
           /\ raised[1].message = "[x] .inzhenerka.yml file not found"
           /\ failed = <<"[x] .inzhenerka.yml file not found">>
           /\ httpCalls = <<>>
           /\ inflight = <<>>
           /\ Count("post") = 0
           /\ pc = "Failed"

\* a run that found no configuration file
C7_Witness ==
    /\ cfgFile = "absent"
    /\ pc = "Failed"

----------------------------------------------------------------------------
(* C8 *)

\* C8: when the validation endpoint returns a response, validateInzhenerkaYml
\* succeeds exactly when the status is 200; for any other status it fails
\* with the 'Configuration is invalid' error citing the status, which reaches
\* the caller as it is, not rewrapped as a transport failure.
C8_ValidOnlyOn200 ==
    (ValidationEnded /\ responses[1].kind = "response")
        => LET st == responses[1].status IN
           /\ (st = 200) <=> Happened("ConfigValidation", "return")
           /\ (st # 200)
                => /\ Happened("ConfigValidation", "raise")
                   /\ Len(raised) = 1
                   /\ raised[1].isError
                   /\ raised[1].message =
                        "[x] Configuration is invalid. HTTP status: " \o StatusText(st)
                   /\ ~Contains(raised[1].message, "Configuration validation failed")
                   /\ failed = <<raised[1].message>>

\* the endpoint answered 201, a success status other than 200
C8_Witness ==
    /\ ValidationEnded
    /\ responses[1].kind = "response"
    /\ responses[1].status = 201
    /\ pc = "Failed"

----------------------------------------------------------------------------
(* C9 *)

\* C9: when the validation HTTP call raises a transport error, the failure
\* message starts with 'Configuration validation failed'; it holds the
\* response status and the serialized response body when the error carries a
\* response, and the error's message text and no status line when it carries
\* none.
C9_TransportFailureMessage ==
    (ValidationEnded /\ responses[1].kind = "reject" /\ responses[1].error.isAxios)
        => LET e == responses[1].error IN
           /\ Happened("ConfigValidation", "raise")
           /\ Len(raised) = 1
           /\ raised[1].isError
           /\ StartsWith(raised[1].message, "[x] Configuration validation failed")
           /\ e.hasResponse
                => /\ Contains(raised[1].message,
                               "Status code: " \o StatusText(e.status) \o "\n")
                   /\ Contains(raised[1].message,
                               "Response: {\"error\":\"" \o e.data.error \o "\"}\n")
           /\ ~e.hasResponse
                => /\ Contains(raised[1].message, "Error: " \o e.message \o "\n")
                   /\ ~Contains(raised[1].message, "Status code")
           /\ failed = <<raised[1].message>>

\* the validation call failed with a response of status 500
C9_Witness ==
    /\ ValidationEnded
    /\ responses[1].kind = "reject"
    /\ responses[1].error.isAxios
    /\ responses[1].error.hasResponse
    /\ responses[1].error.status = 500
    /\ pc = "Failed"

----------------------------------------------------------------------------
(* C10 *)

\* a value that is no Error object was thrown inside the folder validator
NonErrorInFolderValidation ==
    Happened("FolderValidation", "readdirSync:throwNonError")

\* a value that is no Error object was thrown inside the configuration validator
NonErrorInConfigValidation ==
    \/ cfgFile = "readNonError"
    \/ (ValidationEnded /\ responses[1].kind = "reject"
          /\ ~responses[1].error.isError)

\* C10: a thrown value that is no Error object surfaces as the stage's
\* sentinel: 'Unknown error during folder validation' from
\* validateUniqueFolderNames, 'Unknown error during configuration validation'
\* from validateInzhenerkaYml; the run reports exactly that sentinel through
\* setFailed, never 'An unknown error occurred'.
C10_StageSentinels ==
    /\ NonErrorInFolderValidation
         => /\ Len(raised) = 1
            /\ raised[1].isError
            /\ raised[1].message = "Unknown error during folder validation"
            /\ failed = <<"Unknown error during folder validation">>
    /\ NonErrorInConfigValidation
         => /\ Len(raised) = 1
            /\ raised[1].isError
            /\ raised[1].message = "Unknown error during configuration validation"
            /\ failed = <<"Unknown error during configuration validation">>
    /\ (Happened("FolderValidation", "raise") \/ Happened("ConfigValidation", "raise"))
         => failed # <<"An unknown error occurred">>

\* readdirSync threw a string inside the folder validator
C10_Witness ==
    /\ NonErrorInFolderValidation
    /\ pc = "Failed"

----------------------------------------------------------------------------
(* C11 *)

\* the message of the Error fs.readdirSync raised for the root directory
ReaddirErrorText ==
    "ENOENT: no such file or directory, scandir '" \o
    (IF rootDirInput = "" THEN "/work" ELSE rootDirInput) \o "'"

\* C11: an Error raised by the file system during the initial directory read
\* leaves the folder validator unchanged, and the message run() hands to
\* setFailed is that error's message text verbatim.
C11_FileSystemErrorVerbatim ==
    Happened("FolderValidation", "readdirSync:throwError")
        => /\ Len(raised) = 1
           /\ raised[1].isError
           /\ ~raised[1].isAxios
           /\ raised[1].message = ReaddirErrorText
           /\ caught = raised
           /\ failed = <<ReaddirErrorText>>
           /\ pc = "Failed"

\* readdirSync raised an Error in the folder validator
C11_Witness ==
    /\ Happened("FolderValidation", "readdirSync:throwError")
    /\ pc = "Failed"

----------------------------------------------------------------------------
(* C14 *)

\* what the awaited axios.post of uploadArchive ended with
UploadOutcome == responses[Len(responses)]

\* message `next` is logged directly after message `msg`, both at level info
InfoFollowedBy(msg, next) ==
    \E i \in 1..(Len(log) - 1) : /\ log[i] = [level |-> "info", msg |-> msg]
                                 /\ log[i + 1] = [level |-> "info", msg |-> next]

UploadSuccessText == "[ok] Repo and tasks successfully registered"

\* C14: when the ingestion endpoint returns a response, uploadArchive returns
\* exactly when the status is 200, and then the current uploadArchive logs the
\* formatted summary of the body directly followed by the success message
\* (the older uploadArchive logs the success message without a summary); for
\* any other status it raises an Error naming the status code, which reaches
\* run() as raised, neither logged nor wrapped by the catch block.
C14_UploadSucceedsOnlyOn200 ==
    Happened("Uploading", "response") =>
        IF UploadOutcome.status = 200
        THEN /\ Happened("Uploading", "return")
             /\ ~Happened("Uploading", "raise")
             /\ Logged("info", UploadSuccessText)
             /\ (variant = "validating") =>
                    InfoFollowedBy(FormatPumpRoomResponse(UploadOutcome.data),
                                   UploadSuccessText)
        ELSE /\ ~Happened("Uploading", "return")
             /\ ~Logged("info", UploadSuccessText)
             /\ raised = <<MkError("Unable to register repo, code: "
                                   \o StatusText(UploadOutcome.status))>>
             /\ caught = raised
             /\ failed = <<"Unable to register repo, code: "
                           \o StatusText(UploadOutcome.status)>>
             /\ \A i \in 1..Len(log) : log[i].level # "error"
             /\ pc = "Failed"

\* the ingestion endpoint answered 200 to the current uploadArchive
C14_Witness ==
    /\ Happened("Uploading", "response")
    /\ UploadOutcome.status = 200
    /\ variant = "validating"
    /\ Happened("Uploading", "return")

----------------------------------------------------------------------------
(* C15 *)

\* the value the awaited axios.post of uploadArchive rejected with
UploadRejection == UploadOutcome.error

\* some message at level error starts with `prefix`
ErrorLoggedWith(prefix) ==
    \E i \in 1..Len(log) : log[i].level = "error" /\ StartsWith(log[i].msg, prefix)

\* uploadArchive raised Error('Unable to upload archive: <message>')
UploadWrapped ==
    /\ raised = <<MkError("Unable to upload archive: " \o UploadRejection.message)>>
    /\ failed = <<"Unable to upload archive: " \o UploadRejection.message>>

\* the status and the body of the rejection's response are logged as errors
ResponseDetailLogged ==
    /\ Logged("error", "Status code: " \o StatusText(UploadRejection.status))
    /\ Logged("error", "Response: " \o JSONStringify(UploadRejection.data))

\* C15 as stated: a rejection of the upload request that carries a response is
\* logged with status and body and re-raised wrapped, and a rejection that
\* carries no response is propagated unchanged.
C15_BareErrorPropagatedUnchanged ==
    Happened("Uploading", "reject") =>
        IF UploadRejection.hasResponse
        THEN ResponseDetailLogged /\ UploadWrapped
        ELSE raised = <<UploadRejection>>

\* C15: every rejection of the upload request that axios recognises as its own
\* is logged at error severity and re-raised as 'Unable to upload archive:
\* <message>', with the status and the body logged as well exactly when the
\* rejection carries a response; every other rejected value is propagated
\* unchanged and nothing is logged at error severity.
C15_AxiosErrorsWrapped ==
    Happened("Uploading", "reject") =>
        IF UploadRejection.isAxios
        THEN /\ Logged("error", "[x] API request failed: " \o UploadRejection.message)
             /\ UploadWrapped
             /\ IF UploadRejection.hasResponse
                THEN ResponseDetailLogged
                ELSE ~ErrorLoggedWith("Status code: ") /\ ~ErrorLoggedWith("Response: ")
        ELSE /\ raised = <<UploadRejection>>
             /\ caught = raised
             /\ \A i \in 1..Len(log) : log[i].level # "error"

\* the upload request was rejected by an axios error without a response
C15_Witness ==
    /\ Happened("Uploading", "reject")
    /\ UploadRejection.isAxios
    /\ ~UploadRejection.hasResponse
    /\ pc = "Failed"

----------------------------------------------------------------------------
(* C16 *)

\* some message at level info contains every text of `texts`
SummaryContains(texts) ==
    \E i \in 1..Len(log) :
        log[i].level = "info" /\ \A t \in texts : Contains(log[i].msg, t)

\* the decimal text of a counter of the sample bodies
CounterText(n) ==
    CASE n = 0 -> "0" [] n = 1 -> "1" [] n = 2 -> "2" [] n = 3 -> "3"
      [] n = 4 -> "4" [] n = 5 -> "5" [] n = 33 -> "33" [] OTHER -> "?"

\* C16: the summary the current uploadArchive logs for a 200 response shows,
\* for a body with repo_updated, tasks_current, tasks_cached and
\* tasks_synchronized_with_cms, the lines 'Repository Updated', 'Current',
\* 'Cached' and 'Synchronized with CMS' beside Created/Updated/Deleted, and
\* for a body with tasks_uploaded and tasks_retained the lines 'Uploaded' and
\* 'Retained', every counter equal to the field of the body.
C16_BothShapesFormatted ==
    (variant = "validating" /\ Happened("Uploading", "return")) =>
        LET d == UploadOutcome.data
            common == { "Created: " \o CounterText(d.tasks_created),
                        "Updated: " \o CounterText(d.tasks_updated),
                        "Deleted: " \o CounterText(d.tasks_deleted) }
        IN  /\ ("repo_updated" \in DOMAIN d) =>
                   SummaryContains(common \cup
                       { "Repository Updated: "
                            \o (IF d.repo_updated THEN "Yes" ELSE "No"),
                         "Current: " \o CounterText(d.tasks_current),
                         "Cached: " \o CounterText(d.tasks_cached),
                         "Synchronized with CMS: "
                            \o CounterText(d.tasks_synchronized_with_cms) })
            /\ ("tasks_uploaded" \in DOMAIN d) =>
                   SummaryContains(common \cup
                       { "Uploaded: " \o CounterText(d.tasks_uploaded),
                         "Retained: " \o CounterText(d.tasks_retained) })

----------------------------------------------------------------------------
(* Reading the archive build *)

SourceDir == IF rootDirInput = "" THEN "/work" ELSE rootDirInput

\* the full path of the entry p of the tree
FullPath(p) == SourceDir \o "/" \o Join(p, "/")

\* the path contains a fragment of the ignore list
HasFragment(path) == \E j \in 1..Len(ignoreList) : Contains(path, ignoreList[j])

\* the regular files of the tree
WalkedTree == DiskTree(tree, SourceDir, leftover)

Files == { p \in WalkedTree : p \notin DirPaths }

\* the full paths of the regular files that contain no fragment
KeptFiles == { FullPath(p) : p \in { q \in Files : ~HasFragment(FullPath(q)) } }

ArchivedPaths == { zipEntries[i].localPath : i \in 1..Len(zipEntries) }

\* entry q lies beneath directory p
Beneath(q, p) == Len(q) > Len(p) /\ SubSeq(q, 1, Len(p)) = p

----------------------------------------------------------------------------
(* C12 *)

\* C12: whatever the ignore list and the tree, no file handed to
\* zip.addLocalFile has a full path that contains a fragment of the ignore
\* list as a substring.
C12_NoIgnoredPathArchived ==
    \A i \in 1..Len(zipEntries) : ~HasFragment(zipEntries[i].localPath)

\* an archive was built with some files added and some file skipped for a
\* fragment that only a substring test finds in its path
C12_Witness ==
    /\ walkPc = "built"
    /\ zipEntries # <<>>
    /\ <<"redistribute.md">> \in tree
    /\ HasFragment(FullPath(<<"redistribute.md">>))

----------------------------------------------------------------------------
(* C13 *)

\* the directory part of entry p relative to the source directory
RelativeDir(p) == IF Len(p) = 1 THEN "." ELSE Join(SubSeq(p, 1, Len(p) - 1), "/")

\* C13: every zip.addLocalFile call is for a regular file of the tree and
\* names it by its path relative to the source directory, as the directory
\* part (a/b for a/b/c.txt, "." for a file directly beneath the source
\* directory) and the base name.
C13_RelativeStructureKept ==
    \A i \in 1..Len(zipEntries) :
        \E p \in Files :
            /\ zipEntries[i].localPath = FullPath(p)
            /\ zipEntries[i].zipPath = RelativeDir(p)
            /\ zipEntries[i].zipName = p[Len(p)]

\* a file two directories deep and a file directly beneath the source
\* directory were archived
C13_Witness ==
    /\ walkPc = "built"
    /\ \E i \in 1..Len(zipEntries) :
          zipEntries[i].zipPath = "a/b" /\ zipEntries[i].zipName = "c.txt"
    /\ \E i \in 1..Len(zipEntries) :
          zipEntries[i].zipPath = "." /\ zipEntries[i].zipName = "top.txt"

----------------------------------------------------------------------------
(* C18 *)

\* the list the claim describes, written out for each ignore input
ExpectedIgnoreList ==
    CASE ignoreInput = ""                   -> <<".git", ".github">>
      [] ignoreInput = "node_modules, dist" -> <<".git", ".github", "node_modules", "dist">>
      [] ignoreInput = "dist"               -> <<".git", ".github", "dist">>
      [] ignoreInput = "dist,"              -> <<".git", ".github", "dist", "">>
      [] ignoreInput = "a/b , top"          -> <<".git", ".github", "a/b", "top">>

\* C18: the ignore list createZipArchive receives is '.git', '.github' and
\* then the pieces of the ignore input between commas, each trimmed, in
\* input order; for an empty ignore input it is exactly '.git', '.github'.
C18_IgnoreListFromInput ==
    walkPc \in {"archiving", "built"} => ignoreList = ExpectedIgnoreList

\* an archive was built from an ignore input with spaces around a comma
C18_Witness ==
    /\ walkPc = "built"
    /\ ignoreInput = "a/b , top"

----------------------------------------------------------------------------
(* C19 *)

OpAt(i, kinds) == fsOps[i].op \in kinds

\* C19: an entry is stat-ed, enumerated or added only after the ignore test
\* on its full path, and only when the path holds no fragment; an entry
\* whose path holds a fragment is tested and nothing else is ever done with
\* it or with any path beneath it.
C19_IgnoreCheckFirst ==
    /\ \A i \in 1..Len(fsOps) :
          (OpAt(i, {"stat", "add"}) \/ (OpAt(i, {"readdir"}) /\ fsOps[i].path # SourceDir))
              => /\ ~HasFragment(fsOps[i].path)
                 /\ \E k \in 1..(i - 1) : fsOps[k] = Op("check", fsOps[i].path)
    /\ \A i \in 1..Len(fsOps) :
          (OpAt(i, {"check"}) /\ HasFragment(fsOps[i].path))
              => \A k \in 1..Len(fsOps) :
                    OpAt(k, {"check", "stat", "readdir", "add"})
                        => /\ (k # i) => fsOps[k].path # fsOps[i].path
                           /\ ~StartsWith(fsOps[k].path, fsOps[i].path \o "/")

\* a directory that has entries was skipped by the ignore test
C19_Witness ==
    /\ walkPc = "built"
    /\ \E p \in tree \cap DirPaths :
          /\ \E q \in tree : Beneath(q, p)
          /\ HasFragment(FullPath(p))
          /\ \E i \in 1..Len(fsOps) : fsOps[i] = Op("check", FullPath(p))
    /\ zipEntries # <<>>

----------------------------------------------------------------------------
(* C20 *)

WriteOps == { i \in 1..Len(fsOps) : fsOps[i].op = "writeZip" }

\* C20: once createZipArchive has completed, the files handed to
\* zip.addLocalFile are exactly the regular files of the tree whose full
\* path holds no fragment, each once (directories, empty ones included, add
\* nothing, and pruning loses no such file), and the archive is written to
\* the destination once, as the last operation; before that nothing is
\* written.
C20_ArchiveIsExactlyTheKeptFiles ==
    IF walkPc = "built"
    THEN /\ ArchivedPaths = KeptFiles
         /\ Len(zipEntries) = Cardinality(KeptFiles)
         /\ WriteOps = {Len(fsOps)}
         /\ fsOps[Len(fsOps)] = Op("writeZip", "/work/repo-archive.zip")
    ELSE zipEntries = <<>> /\ WriteOps = {}

\* an archive was built from a tree with an empty directory, a skipped
\* directory that has a file, and a file that is kept
C20_Witness ==
    /\ walkPc = "built"
    /\ <<"empty">> \in tree
    /\ \E p \in Files : Len(p) > 1 /\ HasFragment(FullPath(p))
    /\ zipEntries # <<>>

----------------------------------------------------------------------------
(* C17 *)

\* the text holds the API key
HoldsKey(text) == Contains(text, apiKey)

\* the request carries the API key as its X-API-KEY header and nowhere else
KeyInHeaderOnly(call) ==
    /\ <<"X-API-KEY", apiKey>> \in call.headers
    /\ \A h \in call.headers : HoldsKey(h[2]) => h[1] = "X-API-KEY"
    /\ \A h \in call.headers : ~HoldsKey(h[1])
    /\ ~HoldsKey(call.url)
    /\ \A i \in 1..Len(call.body) : ~HoldsKey(call.body[i][1]) /\ ~HoldsKey(call.body[i][2])

\* the request carries the API key nowhere
KeyAbsent(call) ==
    /\ \A h \in call.headers : ~HoldsKey(h[1]) /\ ~HoldsKey(h[2])
    /\ ~HoldsKey(call.url)
    /\ ~HoldsKey(call.body)

\* C17: at every point of every run no message given to core.debug,
\* core.info, core.error or core.setFailed holds the API key; the
\* configuration-validation request carries the key nowhere and an upload
\* request carries it as the X-API-KEY header only; and the run given the
\* other API key, everything else equal, has logged and failed with the same
\* messages.
C17_ApiKeyNeverLogged ==
    /\ \A i \in 1..Len(log) : ~HoldsKey(log[i].msg)
    /\ \A i \in 1..Len(failed) : ~HoldsKey(failed[i])
    /\ \A i \in 1..Len(httpCalls) :
          IF httpCalls[i].url = ValidationUrl
          THEN KeyAbsent(httpCalls[i])
          ELSE KeyInHeaderOnly(httpCalls[i])
    /\ twinLog = log
    /\ twinFailed = failed

\* a run that validated its configuration, sent the upload request with the
\* second API key and failed on the answer
C17_Witness ==
    /\ apiKey = "other-api-key"
    /\ Count("post") = 2
    /\ Happened("Uploading", "reject")
    /\ failed # <<>>

----------------------------------------------------------------------------
(* C23 *)

\* the ingestion endpoint accepted the archive in this run: the upload
\* request returned 200 and uploadArchive logged its success message
UploadAccepted ==
    /\ Happened("Uploading", "response")
    /\ UploadOutcome.status = 200
    /\ Logged("info", UploadSuccessText)

\* C23: core.setFailed is called only in a run whose archive the ingestion
\* endpoint did not accept: once the upload request has returned 200 and the
\* success message of uploadArchive is logged, core.setFailed is not called
\* and the run, when it has ended, has ended in success.
C23_FailureOnlyWithoutAcceptance ==
    UploadAccepted => /\ failed = <<>>
                      /\ Terminal => (pc = "Done" /\ SuccessLogged)

----------------------------------------------------------------------------
(* C21 *)

\* the paths relative to the source directory that the zip.addLocalFile
\* calls name
RelativePaths(entries) ==
    { IF entries[i].zipPath = "." THEN entries[i].zipName
      ELSE entries[i].zipPath \o "/" \o entries[i].zipName : i \in 1..Len(entries) }

\* the relative paths createZipArchive adds for the same tree and the same
\* ignore list when the source directory is the one the input names
ArchivedAt(input) ==
    RelativePaths(CreateZipArchiveOn(WalkedTree, RootDir(input), TempZipPath,
                                     ignoreList).entries)

\* C21: the relative paths that are archived are the same wherever the source
\* directory lies: for the same tree and the same ignore list, createZipArchive
\* adds the same relative paths at every source directory, one whose own path
\* holds '.git' or '.github' included.
C21_SameFilesWhereverTheSourceIs ==
    (walkPc = "built") =>
        \A input \in WalkRootDirInputs : ArchivedAt(input) = RelativePaths(zipEntries)

----------------------------------------------------------------------------
(* C22 *)

\* C22: in every run of a sequence of runs in one working directory, no
\* zip.addLocalFile call is for the temporary archive file
\* <cwd>/repo-archive.zip, also after a run that failed once its archive
\* had been written.
C22_ArchiveFileNeverArchived ==
    \A i \in 1..Len(zipEntries) :
        /\ zipEntries[i].localPath # "/work/repo-archive.zip"
        /\ zipEntries[i].zipName # "repo-archive.zip"

====
